---- MODULE Spec2Model ----
(***************************************************************************)
(* SecureOps360: the ingest Lambda handlers (services/lambda-ingest and    *)
(* infra/envs/dev), the enricher service and the scorer service, each as   *)
(* a state machine.  Every service has its own specification over the      *)
(* shared variable list; the variables of the other services stay at       *)
(* their initial values.                                                    *)
(*                                                                         *)
(* Python values are encoded as strings and integers:                       *)
(*   Absent   the key is not in the mapping                                 *)
(*   NoneVal  the value None (JSON null)                                    *)
(*   ""       the empty string                                              *)
(* A raw batch element is a record with kind "dict" (a JSON object),        *)
(* "str" (a JSON string, field text) or "null" (JSON null).                 *)
(***************************************************************************)
EXTENDS Integers, Sequences, FiniteSets, TLC

VARIABLES
    \* ---- ingest handler (lambda_handler) ----
    handler,          \* "ingest" (services/lambda-ingest) or "dev" (infra/envs/dev)
    stream_name,      \* os.environ KINESIS_STREAM_NAME: "" (unset) or a name
    source_ip,        \* requestContext.identity.sourceIp, NoneVal when missing
    batch,            \* events_to_process; normalize_event mutates its actor mappings
    batch0,           \* the batch as it was received (never written after Init)
    i,                \* loop position of `for i, raw_event in enumerate(...)`, 1-based
    processed_events, \* list of {event_id, status}
    errors,           \* list of {index, error, event_id}
    normalized,       \* every value normalize_event returned: [index, event]
    offered,          \* every send_to_kinesis call: [index, event, ok, published]
    stream,           \* records put on the Kinesis stream
    uuid_calls,       \* number of uuid.uuid4() calls made so far
    statusCode,       \* statusCode of the response, 0 while none was returned
    pc,               \* "loop" | "done" (a response was returned) | "raised" | "idle"
    \* ---- enricher service (EventEnricher.enrich_event) ----
    e_event,          \* the event being enriched (an EventRequest as a dict)
    e_raises,         \* the provider calls whose body raises (the simulated API call fails)
    e_hash,           \* hash(ip_address) % len(countries) of this process
    e_pc,             \* "start" | "threat_intel" | "geo" | "asset_context" | "metadata" | "done" | "idle"
    e_attempted,      \* the provider lookups enrich_event has awaited
    e_enrichments,    \* the local dict `enrichments`: a function from its keys
    e_result,         \* the returned event: [status, enrichments]
    \* ---- scorer service: RuleEngine.calculate_rule_score called on its own ----
    r_features,       \* the argument `features`: a function from feature names
    r_result,         \* the returned dict, with the rules evaluated on the way
    r_pc,             \* "call" | "done" | "idle"
    \* ---- scorer service: the score fusion of RiskScorer.score_event ----
    f_model_score,    \* ml_result['model_score'], in 1/ScoreUnit points
    f_rule_score,     \* rule_result['rule_score']
    f_final_score,    \* final_score
    f_pc,             \* "call" | "done" | "idle"
    \* ---- scorer service: RiskScorer.score_event ----
    s_event,          \* base_event
    s_enrichments,    \* enrichments: a function from its keys
    s_now,            \* datetime.now(timezone.utc) at extraction: [hour, weekday]
    s_features,       \* features
    s_rule_result,    \* rule_result
    s_ml_result,      \* ml_result
    s_logged,         \* the stages that logged an error: "extract", "predict"
    s_result,         \* scoring_result
    s_pc,             \* "extract" | "rules" | "predict" | "fuse" | "done" | "idle"
    \* ---- scorer service: MLModel.predict called on two feature vectors ----
    m_features,       \* a feature vector: a function from feature names
    m_rep_scores,     \* the rep_score feature of the first and of the second vector
    m_results,        \* the two returned dicts
    m_pc,             \* "call" | "done" | "idle"
    \* ---- enricher service: concurrent enrich_event coroutines on one event loop ----
    c_event,          \* per request: the event being enriched
    c_raises,         \* per request: the provider calls whose body raises
    c_hangs,          \* per request: the provider calls whose API call never responds
    c_hash,           \* hash(ip_address) % len(countries) of this process
    c_pc,             \* per request: "start" | a lookup | "metadata" | "done"
    c_awaiting,       \* per request: the provider call the coroutine is suspended in, or "none"
    c_issued,         \* per request: the provider calls made so far
    c_enrichments,    \* per request: the local dict `enrichments`
    c_result,         \* per request: the returned event
    c_scored          \* per request: the clock score_event read and its ScoringResult

ingestVars == <<handler, stream_name, source_ip, batch, batch0, i, processed_events,
                errors, normalized, offered, stream, uuid_calls, statusCode, pc>>

enrichVars == <<e_event, e_raises, e_hash, e_pc, e_attempted, e_enrichments, e_result>>

rulesVars == <<r_features, r_result, r_pc>>
fuseVars == <<f_model_score, f_rule_score, f_final_score, f_pc>>

scoreVars == <<s_event, s_enrichments, s_now, s_features, s_rule_result, s_ml_result,
               s_logged, s_result, s_pc>>

predictVars == <<m_features, m_rep_scores, m_results, m_pc>>

concVars == <<c_event, c_raises, c_hangs, c_hash, c_pc, c_awaiting, c_issued,
              c_enrichments, c_result, c_scored>>

vars == <<ingestVars, enrichVars, rulesVars, fuseVars, scoreVars, predictVars, concVars>>

notIngest == <<enrichVars, rulesVars, fuseVars, scoreVars, predictVars, concVars>>
notEnrich == <<ingestVars, rulesVars, fuseVars, scoreVars, predictVars, concVars>>
notRules == <<ingestVars, enrichVars, fuseVars, scoreVars, predictVars, concVars>>
notFuse == <<ingestVars, enrichVars, rulesVars, scoreVars, predictVars, concVars>>
notScore == <<ingestVars, enrichVars, rulesVars, fuseVars, predictVars, concVars>>
notPredict == <<ingestVars, enrichVars, rulesVars, fuseVars, scoreVars, concVars>>
notConc == <<ingestVars, enrichVars, rulesVars, fuseVars, scoreVars, predictVars>>

----------------------------------------------------------------------------
(* Python values *)

Absent == "<absent>"
NoneVal == "<None>"

\* bool(v) for the values of the model: None, "" and a missing key are falsy
Truthy(v) == v \notin {Absent, NoneVal, ""}

\* dict.get(key, default) on an encoded field
Get(v, default) == IF v = Absent THEN default ELSE v

\* severity_hint: an int, a value that is no number (kind "str"), or no key
Sev(n) == [kind |-> "int", n |-> n]
SevAbsent == [kind |-> "absent", n |-> 0]
SevStr == [kind |-> "str", n |-> 0]

----------------------------------------------------------------------------
(* Bounds and input sets *)

MaxBatch == 2

AbsentMap == [kind |-> "absent", ip |-> Absent, id |-> Absent, type |-> Absent]

BaseActor == [kind |-> "dict", ip |-> "203.0.113.1", id |-> "admin@x", type |-> Absent]
BaseResource == [kind |-> "dict", ip |-> Absent, id |-> "prod-db", type |-> "database"]

\* scenario A of the spec, with an explicit event_id
BaseRaw ==
    [kind |-> "dict", text |-> Absent,
     source |-> "cloudtrail", actor |-> BaseActor, action |-> "AdminLoginFailed",
     resource |-> BaseResource, event_id |-> "evt-1", severity_hint |-> Sev(5),
     received_at |-> Absent]

\* objects that lack some of the required keys
MissingRaws ==
    { [BaseRaw EXCEPT !.source = Absent],
      [BaseRaw EXCEPT !.actor = AbsentMap],
      [BaseRaw EXCEPT !.action = Absent],
      [BaseRaw EXCEPT !.resource = AbsentMap],
      [BaseRaw EXCEPT !.actor = AbsentMap, !.resource = AbsentMap, !.event_id = Absent],
      [BaseRaw EXCEPT !.source = Absent, !.action = Absent],
      [BaseRaw EXCEPT !.source = Absent, !.actor = AbsentMap, !.action = Absent,
                      !.resource = AbsentMap, !.event_id = Absent,
                      !.severity_hint = SevAbsent] }

\* a received_at value the caller put into the raw event
CallerTime == "2020-01-01T00:00:00+00:00"

\* objects that hold all four required keys
CompleteRaws ==
    { BaseRaw,
      [BaseRaw EXCEPT !.source = ""],
      [BaseRaw EXCEPT !.action = NoneVal],
      [BaseRaw EXCEPT !.event_id = Absent],
      [BaseRaw EXCEPT !.event_id = ""],
      [BaseRaw EXCEPT !.event_id = NoneVal],
      [BaseRaw EXCEPT !.actor = [BaseActor EXCEPT !.ip = Absent], !.event_id = Absent,
                      !.severity_hint = SevAbsent],
      [BaseRaw EXCEPT !.actor = [kind |-> "str", ip |-> Absent, id |-> Absent,
                                 type |-> Absent]],
      [BaseRaw EXCEPT !.severity_hint = Sev(0)],
      [BaseRaw EXCEPT !.severity_hint = Sev(9), !.received_at = CallerTime],
      [BaseRaw EXCEPT !.actor = [BaseActor EXCEPT !.ip = ""], !.resource.id = Absent,
                      !.severity_hint = Sev(3)] }

\* list elements that are not JSON objects
NonDictRaws ==
    { [kind |-> "null", text |-> Absent, source |-> Absent, actor |-> AbsentMap,
       action |-> Absent, resource |-> AbsentMap, event_id |-> Absent,
       severity_hint |-> SevAbsent, received_at |-> Absent],
      [kind |-> "str", text |-> "ping", source |-> Absent, actor |-> AbsentMap,
       action |-> Absent, resource |-> AbsentMap, event_id |-> Absent,
       severity_hint |-> SevAbsent, received_at |-> Absent] }

RawEvents == MissingRaws \cup CompleteRaws \cup NonDictRaws

Batches == UNION { [1..n -> RawEvents] : n \in 1..MaxBatch }

SourceIps == {NoneVal, "", "10.0.0.5"}
StreamNames == {"", "secureops360-dev-events"}
Handlers == {"ingest", "dev"}

\* str(uuid.uuid4()) of the n-th call: pairwise different, and different from
\* every identifier a raw event of RawEvents carries
UuidTable == <<"uuid-1", "uuid-2", "uuid-3", "uuid-4", "uuid-5", "uuid-6">>
uuid4(n) == UuidTable[n]

\* datetime.now(timezone.utc).isoformat() at the n-th normalization of an
\* invocation: the clock is later than any time a raw event of RawEvents carries
ClockTable == <<"2026-01-01T00:00:01+00:00", "2026-01-01T00:00:02+00:00",
                "2026-01-01T00:00:03+00:00", "2026-01-01T00:00:04+00:00",
                "2026-01-01T00:00:05+00:00", "2026-01-01T00:00:06+00:00">>
utcnow(n) == ClockTable[n]

----------------------------------------------------------------------------
(* validate_event_schema *)

required_fields == <<"source", "actor", "action", "resource">>

\* `field in event_data` for a dict (key lookup) and for a str (substring test;
\* the only string of the model, "ping", contains no field name)
HasField(event_data, field) ==
    IF event_data.kind = "dict"
    THEN CASE field = "source"   -> event_data.source # Absent
           [] field = "actor"    -> event_data.actor.kind # "absent"
           [] field = "action"   -> event_data.action # Absent
           [] field = "resource" -> event_data.resource.kind # "absent"
    ELSE FALSE

MissingFields(event_data) ==
    { k \in 1..Len(required_fields) : ~HasField(event_data, required_fields[k]) }

FirstMissing(event_data) ==
    required_fields[CHOOSE k \in MissingFields(event_data) :
                        \A m \in MissingFields(event_data) : k <= m]

MissingMsg(field) ==
    CASE field = "source"   -> "Missing required field: source"
      [] field = "actor"    -> "Missing required field: actor"
      [] field = "action"   -> "Missing required field: action"
      [] field = "resource" -> "Missing required field: resource"

\* the mutant of validate_event_schema: 'resource' dropped from required_fields
validate_event_schema_NoResource(event_data) ==
    IF event_data.kind = "null"
    THEN [raised |-> TRUE, is_valid |-> FALSE, error_msg |-> "TypeError"]
    ELSE IF MissingFields(event_data) \ {4} = {}
    THEN [raised |-> FALSE, is_valid |-> TRUE, error_msg |-> NoneVal]
    ELSE [raised |-> FALSE, is_valid |-> FALSE,
          error_msg |-> MissingMsg(required_fields[
              CHOOSE k \in MissingFields(event_data) \ {4} :
                  \A m \in MissingFields(event_data) \ {4} : k <= m])]

\* returns (is_valid, error_msg); `field not in None` raises TypeError
validate_event_schema(event_data) ==
    IF event_data.kind = "null"
    THEN [raised |-> TRUE, is_valid |-> FALSE, error_msg |-> "TypeError"]
    ELSE IF MissingFields(event_data) = {}
    THEN [raised |-> FALSE, is_valid |-> TRUE, error_msg |-> NoneVal]
    ELSE [raised |-> FALSE, is_valid |-> FALSE,
          error_msg |-> MissingMsg(FirstMissing(event_data))]

----------------------------------------------------------------------------
(* normalize_event *)

\* a variant of ActorLacksIp: the transport address is written over a raw ip
ActorLacksIp_Always(actor) == TRUE

\* `'ip' not in actor`: key lookup on a dict, substring test on a str (the
\* string actor of the model does not contain "ip")
ActorLacksIp(actor) == IF actor.kind = "dict" THEN actor.ip = Absent ELSE TRUE

\* event_id = raw_event.get('event_id', str(uuid.uuid4())): the default is used
\* only when the key is missing; n is the number of this uuid4() call
NormalizedEventId(raw_event, n) == Get(raw_event.event_id, uuid4(n))

\* [raised, error, actor, event]: actor is raw_event['actor'] after the call
\* (for a raw event that has the key, the same object as the normalized
\* event's actor), event the returned mapping.  Without the key the actor is
\* the fresh {} of the .get default.  raw_event.get on a str raises
\* AttributeError; item assignment on a str actor raises TypeError.
normalize_event(raw_event, src_ip, n) ==
    LET actor == IF raw_event.actor.kind = "absent"
                 THEN [raw_event.actor EXCEPT !.kind = "dict"] ELSE raw_event.actor
        backfill == ActorLacksIp(actor) /\ Truthy(src_ip)
        actor2 == IF backfill /\ actor.kind = "dict"
                  THEN [actor EXCEPT !.ip = src_ip] ELSE actor
    IN  IF raw_event.kind # "dict"
        THEN [raised |-> TRUE, error |-> "'str' object has no attribute 'get'",
              actor |-> raw_event.actor, event |-> NoneVal]
        ELSE IF backfill /\ actor.kind # "dict"
        THEN [raised |-> TRUE,
              error |-> "'str' object does not support item assignment",
              actor |-> raw_event.actor, event |-> NoneVal]
        ELSE [raised |-> FALSE, error |-> NoneVal,
              actor |-> IF raw_event.actor.kind = "absent" THEN raw_event.actor
                        ELSE actor2,
              event |-> [event_id |-> NormalizedEventId(raw_event, n),
                         source |-> Get(raw_event.source, NoneVal),
                         received_at |-> utcnow(n),
                         actor |-> actor2,
                         action |-> Get(raw_event.action, NoneVal),
                         resource |-> raw_event.resource,
                         severity_hint |-> IF raw_event.severity_hint.kind = "absent"
                                           THEN Sev(1) ELSE raw_event.severity_hint]]

----------------------------------------------------------------------------
(* send_to_kinesis *)

\* a variant of send_to_kinesis: lambda-ingest too returns True without
\* publishing when no stream name is set
send_to_kinesis_SkipsEverywhere(h, name, event, put_ok) ==
    IF ~Truthy(name)
    THEN [ok |-> TRUE, published |-> FALSE]
    ELSE IF event.actor.kind # "dict"
    THEN [ok |-> FALSE, published |-> FALSE]
    ELSE [ok |-> put_ok, published |-> put_ok]

\* [ok, published].  put_ok: whether kinesis put_record succeeds.
\* lambda-ingest raises (and returns False) without a stream name; the dev
\* handler returns True without publishing.  The partition key reads
\* event['actor'].get('id'), which raises AttributeError on a str actor.
send_to_kinesis(h, name, event, put_ok) ==
    IF ~Truthy(name)
    THEN [ok |-> (h = "dev"), published |-> FALSE]
    ELSE IF event.actor.kind # "dict"
    THEN [ok |-> FALSE, published |-> FALSE]
    ELSE [ok |-> put_ok, published |-> put_ok]

----------------------------------------------------------------------------
(* lambda_handler, POST *)

\* the enricher is not running
EnrichIdle ==
    /\ e_event = [actor |-> AbsentMap, resource |-> AbsentMap]
    /\ e_raises = {}
    /\ e_hash = 0
    /\ e_pc = "idle"
    /\ e_attempted = {}
    /\ e_enrichments = <<>>
    /\ e_result = [status |-> Absent, enrichments |-> <<>>]

NoRuleResult ==
    [rule_score |-> 0, triggered_rules |-> <<>>, evaluated |-> <<>>,
     total_rules_checked |-> 0]

\* calculate_rule_score is not being called
RulesIdle ==
    /\ r_features = <<>>
    /\ r_result = NoRuleResult
    /\ r_pc = "idle"

\* no scores are being fused
FuseIdle ==
    /\ f_model_score = 0
    /\ f_rule_score = 0
    /\ f_final_score = 0
    /\ f_pc = "idle"

NoMlResult == [model_score |-> 0, confidence |-> 0, features_used |-> 0, raised |-> FALSE]

NoScoringResult ==
    [model_score |-> 0, rule_score |-> 0, final_score |-> 0, confidence |-> 0,
     triggered_rules |-> <<>>, features_extracted |-> 0]

\* score_event is not being called
ScoreIdle ==
    /\ s_event = [action |-> Absent, resource |-> AbsentMap, severity_hint |-> SevAbsent]
    /\ s_enrichments = <<>>
    /\ s_now = [hour |-> 0, weekday |-> 0]
    /\ s_features = <<>>
    /\ s_rule_result = NoRuleResult
    /\ s_ml_result = NoMlResult
    /\ s_logged = {}
    /\ s_result = NoScoringResult
    /\ s_pc = "idle"

\* predict is not being called on its own
PredictIdle ==
    /\ m_features = <<>>
    /\ m_rep_scores = <<0, 0>>
    /\ m_results = <<NoMlResult, NoMlResult>>
    /\ m_pc = "idle"

\* no concurrent requests are in the enricher
ConcIdle ==
    /\ c_event = <<>>
    /\ c_raises = <<>>
    /\ c_hangs = <<>>
    /\ c_hash = 0
    /\ c_pc = <<>>
    /\ c_awaiting = <<>>
    /\ c_issued = <<>>
    /\ c_enrichments = <<>>
    /\ c_result = <<>>
    /\ c_scored = <<>>

IngestInit ==
    /\ EnrichIdle
    /\ RulesIdle
    /\ FuseIdle
    /\ ScoreIdle
    /\ PredictIdle
    /\ ConcIdle
    /\ handler \in Handlers
    /\ stream_name \in StreamNames
    /\ source_ip \in SourceIps
    /\ batch \in Batches
    /\ batch0 = batch
    /\ i = 1
    /\ processed_events = <<>>
    /\ errors = <<>>
    /\ normalized = <<>>
    /\ offered = <<>>
    /\ stream = <<>>
    /\ uuid_calls = 0
    /\ statusCode = 0
    /\ pc = "loop"

ErrorEntry(index, error, raw_event) ==
    [index |-> index, error |-> error, event_id |-> Get(raw_event.event_id, "unknown")]

\* raw_event.get(...) on an element that is no dict raises AttributeError: in
\* the try body for a str (after validation said "missing"), and again in the
\* except clause, so the exception leaves the loop.  lambda-ingest's outer
\* try answers 500; the dev handler has none and the invocation fails.
ElementEscapes ==
    /\ pc = "loop"
    /\ i <= Len(batch)
    /\ batch[i].kind # "dict"
    /\ pc' = IF handler = "ingest" THEN "done" ELSE "raised"
    /\ statusCode' = IF handler = "ingest" THEN 500 ELSE 0
    /\ UNCHANGED <<handler, stream_name, source_ip, batch, batch0, i, processed_events,
                   errors, normalized, offered, stream, uuid_calls>>
    /\ UNCHANGED notIngest

\* the loop body for a dict whose validation fails: errors.append, continue
ElementRejected ==
    /\ pc = "loop"
    /\ i <= Len(batch)
    /\ batch[i].kind = "dict"
    /\ ~validate_event_schema(batch[i]).is_valid
    /\ errors' = Append(errors,
                        ErrorEntry(i - 1, validate_event_schema(batch[i]).error_msg, batch[i]))
    /\ i' = i + 1
    /\ UNCHANGED <<handler, stream_name, source_ip, batch, batch0, processed_events,
                   normalized, offered, stream, uuid_calls, statusCode, pc>>
    /\ UNCHANGED notIngest

\* the loop body for a dict that passes validation: normalize_event, then
\* send_to_kinesis, then processed_events.append or errors.append
ElementAccepted ==
    /\ pc = "loop"
    /\ i <= Len(batch)
    /\ batch[i].kind = "dict"
    /\ validate_event_schema(batch[i]).is_valid
    /\ \E put_ok \in BOOLEAN :
        LET n == normalize_event(batch[i], source_ip, uuid_calls + 1)
            s == send_to_kinesis(handler, stream_name, n.event, put_ok)
        IN  /\ uuid_calls' = uuid_calls + 1
            /\ i' = i + 1
            /\ IF n.raised
               THEN /\ errors' = Append(errors, ErrorEntry(i - 1, n.error, batch[i]))
                    /\ UNCHANGED <<batch, processed_events, normalized, offered, stream>>
               ELSE /\ batch' = [batch EXCEPT ![i].actor = n.actor]
                    /\ normalized' = Append(normalized, [index |-> i - 1, event |-> n.event])
                    /\ offered' = Append(offered, [index |-> i - 1, event |-> n.event,
                                                   ok |-> s.ok, published |-> s.published])
                    /\ stream' = IF s.published THEN Append(stream, n.event) ELSE stream
                    /\ IF s.ok
                       THEN /\ processed_events' =
                                   Append(processed_events,
                                          [event_id |-> n.event.event_id, status |-> "accepted"])
                            /\ UNCHANGED errors
                       ELSE /\ errors' =
                                   Append(errors,
                                          [index |-> i - 1, error |-> "Failed to send to stream",
                                           event_id |-> n.event.event_id])
                            /\ UNCHANGED processed_events
    /\ UNCHANGED <<handler, stream_name, source_ip, batch0, statusCode, pc>>
    /\ UNCHANGED notIngest

\* after the loop: 200 without errors, 207 with
Respond ==
    /\ pc = "loop"
    /\ i > Len(batch)
    /\ statusCode' = IF errors = <<>> THEN 200 ELSE 207
    /\ pc' = "done"
    /\ UNCHANGED <<handler, stream_name, source_ip, batch, batch0, i, processed_events,
                   errors, normalized, offered, stream, uuid_calls>>
    /\ UNCHANGED notIngest

IngestNext == ElementEscapes \/ ElementRejected \/ ElementAccepted \/ Respond

SpecIngest == IngestInit /\ [][IngestNext]_vars

----------------------------------------------------------------------------
(* Claims about the ingest handler *)

IndexesOf(log) == { log[k].index : k \in 1..Len(log) }

\* the message the specification expects for a raw event: the first missing
\* key in the order source, actor, action, resource
C1_ExpectedMsg(raw) ==
    IF raw.source = Absent THEN "Missing required field: source"
    ELSE IF raw.actor.kind = "absent" THEN "Missing required field: actor"
    ELSE IF raw.action = Absent THEN "Missing required field: action"
    ELSE "Missing required field: resource"

C1_LacksRequired(raw) ==
    /\ raw.kind = "dict"
    /\ \/ raw.source = Absent
       \/ raw.actor.kind = "absent"
       \/ raw.action = Absent
       \/ raw.resource.kind = "absent"

\* C1: a raw event (a JSON object) that lacks one of source, actor, action,
\* resource is never normalized and never handed to send_to_kinesis, every
\* record on the stream comes from a send_to_kinesis call that published, and
\* once the loop has passed the event its errors entry names the first missing
\* field.
C1_MissingFieldRejected ==
    /\ \A j \in 1..Len(batch0) :
          C1_LacksRequired(batch0[j]) =>
             /\ (j - 1) \notin IndexesOf(normalized)
             /\ (j - 1) \notin IndexesOf(offered)
             /\ j < i => \E k \in 1..Len(errors) :
                            /\ errors[k].index = j - 1
                            /\ errors[k].error = C1_ExpectedMsg(batch0[j])
    /\ Len(stream) = Cardinality({ k \in 1..Len(offered) : offered[k].published })
    /\ \A k \in 1..Len(offered) : (offered[k].index + 1) \in 1..Len(batch0)

\* C1 witness: a batch answered 207 in which an object missing two required
\* keys was rejected with the first of them and a sibling was published
C1_Witness ==
    /\ pc = "done"
    /\ statusCode = 207
    /\ Len(stream) > 0
    /\ \E j \in 1..Len(batch0) :
          /\ C1_LacksRequired(batch0[j])
          /\ batch0[j].source # Absent
          /\ batch0[j].actor.kind = "absent"
          /\ batch0[j].resource.kind = "absent"
          /\ \E k \in 1..Len(errors) :
                /\ errors[k].index = j - 1
                /\ errors[k].error = "Missing required field: actor"

C2_WellFormed(raw) ==
    /\ raw.kind = "dict"
    /\ ~C1_LacksRequired(raw)
    /\ raw.actor.kind = "dict"

\* C2: when the handler has finished, every element of the batch that holds
\* all four required fields (and a mapping as actor) was normalized and
\* offered to the stream whatever its siblings are, and the handler returned
\* a per-batch response (200 or 207).
C2_SiblingsNeverBlocked ==
    pc \in {"done", "raised"} =>
       \A j \in 1..Len(batch0) :
          C2_WellFormed(batch0[j]) =>
             /\ (j - 1) \in IndexesOf(normalized)
             /\ (j - 1) \in IndexesOf(offered)
             /\ statusCode \in {200, 207}

\* C9: every normalized event has a non-empty event_id, source and action
C9_NormalizedNonEmpty ==
    \A k \in 1..Len(normalized) :
       /\ Truthy(normalized[k].event.event_id)
       /\ Truthy(normalized[k].event.source)
       /\ Truthy(normalized[k].event.action)

GeneratedIds == { UuidTable[n] : n \in 1..Len(UuidTable) }

\* C10: the normalized event_id is the raw event_id when that is present and
\* non-empty, and otherwise a generated identifier that no other normalized
\* event of the run carries
C10_EventIdRawOrFresh ==
    \A k \in 1..Len(normalized) :
       LET raw == batch0[normalized[k].index + 1]
           id == normalized[k].event.event_id
       IN  IF Truthy(raw.event_id)
           THEN id = raw.event_id
           ELSE /\ id \in GeneratedIds
                /\ \A m \in 1..Len(normalized) :
                      m # k => normalized[m].event.event_id # id

----------------------------------------------------------------------------
(* Enricher service: the mock providers *)

\* a truthy value that is no str (a JSON number, list or object)
NonStr == "<non-str>"

\* ip_address.startswith('10.') or ip_address.startswith('192.168.')
IsPrivateIp(ip) == ip \in {"10.0.0.5"}

\* '127.' in ip_address or '0.0.0.0' in ip_address
IsLoopbackIp(ip) == ip \in {"127.0.0.1"}

\* sum(ord(c) for c in ip_address)
OrdSum(ip) ==
    CASE ip = "10.0.0.5"     -> 384
      [] ip = "127.0.0.1"    -> 437
      [] ip = "198.51.100.7" -> 602
      [] ip = "8.8.8.8"      -> 362
      [] ip = "203.0.113.1"  -> 533

ThreatIntelFallback ==
    [ip_rep |-> "unknown", rep_score |-> 50, feeds |-> {}, fallback |-> TRUE]

\* the mutant of lookup_ip_reputation: the except clause answers score 0
lookup_ip_reputation_Fallback0(ip_address, raises) ==
    IF raises \/ ip_address = NonStr
    THEN [ThreatIntelFallback EXCEPT !.rep_score = 0]
    ELSE [ip_rep |-> "clean", rep_score |-> 10, feeds |-> {"mock_threat_feed"},
          fallback |-> FALSE]

\* ThreatIntelligenceService.lookup_ip_reputation.  A str method on a value
\* that is no str raises AttributeError inside the try; `raises` is a failure
\* of the simulated call.  fallback tells the except clause's dict (it has an
\* 'error' key and no 'last_updated').
lookup_ip_reputation(ip_address, raises) ==
    IF raises \/ ip_address = NonStr
    THEN ThreatIntelFallback
    ELSE LET score_hash == OrdSum(ip_address) % 100
             rep == IF IsPrivateIp(ip_address) THEN <<"clean", 10>>
                    ELSE IF IsLoopbackIp(ip_address) THEN <<"suspicious", 60>>
                    ELSE IF score_hash < 15 THEN <<"malicious", 90>>
                    ELSE IF score_hash < 40 THEN <<"suspicious", 60>>
                    ELSE <<"clean", 15>>
         IN  [ip_rep |-> rep[1], rep_score |-> rep[2], feeds |-> {"mock_threat_feed"},
              fallback |-> FALSE]

countries ==
    << [country |-> "United States", code |-> "US", asn |-> 13335, org |-> "ISP-US"],
       [country |-> "India", code |-> "IN", asn |-> 13238, org |-> "ISP-IN"],
       [country |-> "United Kingdom", code |-> "GB", asn |-> 12345, org |-> "ISP-GB"],
       [country |-> "Germany", code |-> "DE", asn |-> 54321, org |-> "ISP-DE"] >>

\* a variant of GeoFallback: the fallback carries a placeholder AS number
GeoFallback_WithAsn ==
    [country |-> "unknown", country_code |-> "XX", asn |-> 64512, org |-> "unknown"]

GeoFallback == [country |-> "unknown", country_code |-> "XX", asn |-> 0, org |-> "unknown"]

\* GeoLocationService.lookup_ip_location; h is hash(ip_address) % len(countries)
lookup_ip_location(ip_address, raises, h) ==
    IF raises \/ ip_address = NonStr
    THEN GeoFallback
    ELSE IF IsPrivateIp(ip_address)
    THEN [country |-> "US", country_code |-> "US", asn |-> 13335, org |-> "Private Network"]
    ELSE [country |-> countries[h + 1].country, country_code |-> countries[h + 1].code,
          asn |-> countries[h + 1].asn, org |-> countries[h + 1].org]

\* 'dev' in asset_id or 'test' in asset_id
MentionsDevOrTest(asset_id) == asset_id \in {"dev-db"}

AssetFallback(asset_id, asset_type) ==
    [asset_id |-> asset_id, asset_type |-> asset_type, environment |-> "unknown",
     criticality |-> 1, owner |-> "unknown", tags |-> {}]

\* AssetContextService.get_asset_context; `'dev' in asset_id` raises TypeError
\* inside the try when asset_id is a number
get_asset_context(asset_id, asset_type, raises) ==
    IF raises \/ asset_id = NonStr
    THEN AssetFallback(asset_id, asset_type)
    ELSE [asset_id |-> asset_id, asset_type |-> asset_type,
          environment |-> IF MentionsDevOrTest(asset_id) THEN "dev" ELSE "prod",
          criticality |-> IF asset_type \in {"database", "s3"} THEN 3 ELSE 1,
          owner |-> "security-team",
          tags |-> {<<"project", "secureops360">>, <<"managed_by", "terraform">>}]

----------------------------------------------------------------------------
(* Claims about normalize_event *)

\* the raw event, as received, of the k-th normalized event
RawOf(k) == batch0[normalized[k].index + 1]

\* C11: in a normalized event, actor.ip is the raw actor's ip whenever the raw
\* actor mapping has an ip key, whatever source_ip is; it is the transport's
\* source_ip when the raw actor lacks the key and a source_ip is given; and
\* the actor has no ip when neither exists.
C11_ActorIpBackfill ==
    \A k \in 1..Len(normalized) :
        LET raw_actor == RawOf(k).actor
            ip == normalized[k].event.actor.ip
        IN  raw_actor.kind = "dict" =>
                IF raw_actor.ip # Absent THEN ip = raw_actor.ip
                ELSE IF Truthy(source_ip) THEN ip = source_ip
                ELSE ip = Absent

\* scenario C: no raw ip, source_ip 10.0.0.5; and a raw ip kept although a
\* source_ip was given
C11_Witness ==
    /\ source_ip = "10.0.0.5"
    /\ Len(normalized) = 2
    /\ RawOf(1).actor.ip = Absent
    /\ normalized[1].event.actor.ip = "10.0.0.5"
    /\ RawOf(2).actor.ip = "203.0.113.1"
    /\ normalized[2].event.actor.ip = "203.0.113.1"

\* the declared range of severity_hint
C19_Clamp(n) == IF n < 1 THEN 1 ELSE IF n > 5 THEN 5 ELSE n

\* C19: whatever integer (or missing) severity_hint the raw event carries, the
\* normalized severity_hint lies in 1..5: a value below 1 becomes 1, a value
\* above 5 becomes 5, an absent one becomes 1.
C19_SeverityClamped ==
    \A k \in 1..Len(normalized) :
        LET raw_sev == RawOf(k).severity_hint
            sev == normalized[k].event.severity_hint
        IN  /\ sev.kind = "int"
            /\ sev.n \in 1..5
            /\ raw_sev.kind = "absent" => sev.n = 1
            /\ raw_sev.kind = "int" => sev.n = C19_Clamp(raw_sev.n)

\* C20: normalize_event has no side effect on its input: after it returned,
\* the raw events and the mappings reachable from them (raw['actor']) are what
\* they were when the batch was received.
C20_RawEventsUntouched ==
    \A k \in 1..Len(normalized) :
        batch[normalized[k].index + 1] = RawOf(k)

----------------------------------------------------------------------------
(* EventEnricher.enrich_event *)

EnrichIps == {Absent, "", "10.0.0.5", "127.0.0.1", "198.51.100.7", "8.8.8.8",
              "203.0.113.1", NonStr}
EnrichResourceIds == {Absent, "", "prod-db", "dev-db", NonStr}
EnrichResourceTypes == {Absent, "", "database", "vm"}
Lookups == {"threat_intel", "geo", "asset_context"}

\* the normalized event of scenario A
BaseEvent == normalize_event(BaseRaw, NoneVal, 1).event

\* EventRequest declares actor and resource as dicts, so both are mappings
EnrichEvents ==
    { [BaseEvent EXCEPT !.actor = [BaseActor EXCEPT !.ip = ip],
                        !.resource = [BaseResource EXCEPT !.id = rid, !.type = rtype]] :
      ip \in EnrichIps, rid \in EnrichResourceIds, rtype \in EnrichResourceTypes }

\* datetime.now(timezone.utc).isoformat() when the enricher writes its metadata
EnrichedAt == "2026-01-01T00:01:00+00:00"

\* a variant of enriched_event: the enricher stamps the event with its own time
enriched_event_Restamped(event, enrichments) ==
    [status |-> "enriched", enrichments |-> enrichments, received_at |-> EnrichedAt]
        @@ event

\* enriched_event = event.copy(); enriched_event['enrichments'] = enrichments;
\* enriched_event['status'] = 'enriched': the event's keys, and the two written
enriched_event(event, enrichments) ==
    [status |-> "enriched", enrichments |-> enrichments] @@ event

\* the mutant of WantsAssetLookup: one of id and type is enough
WantsAssetLookup_Either(event) ==
    Truthy(event.resource.id) \/ Truthy(event.resource.type)

\* `if actor_ip:`
WantsIpLookups(event) == Truthy(event.actor.ip)

\* `if resource_id and resource_type:`
WantsAssetLookup(event) ==
    Truthy(event.resource.id) /\ Truthy(event.resource.type)

\* the ingest handler is not running
IngestIdle ==
    /\ handler = "ingest"
    /\ stream_name = ""
    /\ source_ip = NoneVal
    /\ batch = <<>>
    /\ batch0 = <<>>
    /\ i = 1
    /\ processed_events = <<>>
    /\ errors = <<>>
    /\ normalized = <<>>
    /\ offered = <<>>
    /\ stream = <<>>
    /\ uuid_calls = 0
    /\ statusCode = 0
    /\ pc = "idle"

EnrichInit ==
    /\ IngestIdle
    /\ RulesIdle
    /\ FuseIdle
    /\ ScoreIdle
    /\ PredictIdle
    /\ ConcIdle
    /\ e_event \in EnrichEvents
    /\ e_raises \in SUBSET Lookups
    /\ e_hash \in 0..(Len(countries) - 1)
    /\ e_pc = "start"
    /\ e_attempted = {}
    /\ e_enrichments = <<>>
    /\ e_result = [status |-> Absent, enrichments |-> <<>>]

AfterIpLookups(event) == IF WantsAssetLookup(event) THEN "asset_context" ELSE "metadata"

\* enriched_event = event.copy(); enrichments = {}; actor_ip = ...
EnrichStart ==
    /\ e_pc = "start"
    /\ e_pc' = IF WantsIpLookups(e_event) THEN "threat_intel" ELSE AfterIpLookups(e_event)
    /\ UNCHANGED <<e_event, e_raises, e_hash, e_attempted, e_enrichments, e_result>>
    /\ UNCHANGED notEnrich

\* threat_intel = await lookup_ip_reputation(actor_ip)
EnrichThreatIntel ==
    /\ e_pc = "threat_intel"
    /\ e_attempted' = e_attempted \cup {"threat_intel"}
    /\ e_enrichments' = e_enrichments @@
          ("threat_intel" :> lookup_ip_reputation(e_event.actor.ip,
                                                   "threat_intel" \in e_raises))
    /\ e_pc' = "geo"
    /\ UNCHANGED <<e_event, e_raises, e_hash, e_result>>
    /\ UNCHANGED notEnrich

\* geo_data = await lookup_ip_location(actor_ip)
EnrichGeo ==
    /\ e_pc = "geo"
    /\ e_attempted' = e_attempted \cup {"geo"}
    /\ e_enrichments' = e_enrichments @@
          ("geo" :> lookup_ip_location(e_event.actor.ip, "geo" \in e_raises, e_hash))
    /\ e_pc' = AfterIpLookups(e_event)
    /\ UNCHANGED <<e_event, e_raises, e_hash, e_result>>
    /\ UNCHANGED notEnrich

\* asset_context = await get_asset_context(resource_id, resource_type)
EnrichAsset ==
    /\ e_pc = "asset_context"
    /\ e_attempted' = e_attempted \cup {"asset_context"}
    /\ e_enrichments' = e_enrichments @@
          ("asset_context" :> get_asset_context(e_event.resource.id, e_event.resource.type,
                                                "asset_context" \in e_raises))
    /\ e_pc' = "metadata"
    /\ UNCHANGED <<e_event, e_raises, e_hash, e_result>>
    /\ UNCHANGED notEnrich

\* enrichment_metadata, enriched_event['enrichments'], status 'enriched', return
EnrichFinish ==
    /\ e_pc = "metadata"
    /\ LET enr == e_enrichments @@
                  ("enrichment_metadata" :>
                      [enriched_at |-> EnrichedAt,
                       enricher_version |-> "1.0.0",
                       enrichments_added |-> Cardinality(DOMAIN e_enrichments)])
       IN  /\ e_enrichments' = enr
           /\ e_result' = enriched_event(e_event, enr)
    /\ e_pc' = "done"
    /\ UNCHANGED <<e_event, e_raises, e_hash, e_attempted>>
    /\ UNCHANGED notEnrich

EnrichNext == EnrichStart \/ EnrichThreatIntel \/ EnrichGeo \/ EnrichAsset \/ EnrichFinish

SpecEnrich == EnrichInit /\ [][EnrichNext]_vars

----------------------------------------------------------------------------
(* Claims about enrich_event *)

\* whether the lookup fails: the simulated call raises, or the provider is
\* handed a value it cannot treat as a string
C3_Failed(lookup) ==
    \/ lookup \in e_raises
    \/ lookup \in {"threat_intel", "geo"} /\ e_event.actor.ip = NonStr
    \/ lookup = "asset_context" /\ e_event.resource.id = NonStr

\* C3: enrich_event returns the event with status 'enriched' and an
\* enrichments bundle whatever subset of the attempted lookups failed; a failed
\* lookup's sub-bundle is its fixed fallback (threat-intel unknown / 50 / no
\* feeds, geo XX / 0 / unknown, asset unknown / 1 / unknown / no tags) and a
\* lookup that succeeded contributes the provider's answer unchanged.
C3_ProviderFailuresIsolated ==
    e_pc = "done" =>
       LET enr == e_result.enrichments
       IN  /\ e_result.status = "enriched"
           /\ e_attempted \subseteq DOMAIN enr
           /\ "threat_intel" \in e_attempted =>
                 IF C3_Failed("threat_intel")
                 THEN /\ enr["threat_intel"].ip_rep = "unknown"
                      /\ enr["threat_intel"].rep_score = 50
                      /\ enr["threat_intel"].feeds = {}
                 ELSE enr["threat_intel"] = lookup_ip_reputation(e_event.actor.ip, FALSE)
           /\ "geo" \in e_attempted =>
                 IF C3_Failed("geo")
                 THEN /\ enr["geo"].country_code = "XX"
                      /\ enr["geo"].asn = 0
                      /\ enr["geo"].org = "unknown"
                 ELSE enr["geo"] = lookup_ip_location(e_event.actor.ip, FALSE, e_hash)
           /\ "asset_context" \in e_attempted =>
                 IF C3_Failed("asset_context")
                 THEN /\ enr["asset_context"].environment = "unknown"
                      /\ enr["asset_context"].criticality = 1
                      /\ enr["asset_context"].owner = "unknown"
                      /\ enr["asset_context"].tags = {}
                 ELSE enr["asset_context"] =
                         get_asset_context(e_event.resource.id, e_event.resource.type, FALSE)

\* C3 witness: all three lookups were attempted, only the geo lookup failed,
\* and the returned bundle holds the geo fallback next to the two answers
C3_Witness ==
    /\ e_pc = "done"
    /\ e_attempted = Lookups
    /\ e_raises = {"geo"}
    /\ e_event.actor.ip = "198.51.100.7"
    /\ e_event.resource.id = "prod-db"
    /\ e_result.enrichments["geo"].country_code = "XX"
    /\ e_result.enrichments["threat_intel"].ip_rep = "malicious"
    /\ e_result.enrichments["asset_context"].environment = "prod"

C4_NonEmpty(v) == v \notin {Absent, NoneVal, ""}

\* C4: threat-intel and geo are attempted iff actor.ip is non-empty, the
\* asset-context lookup iff resource.id and resource.type are both non-empty,
\* and the returned enrichments hold a sub-bundle's key iff its lookup was
\* attempted (a skipped lookup leaves no key behind).
C4_LookupsFollowBranchConditions ==
    e_pc = "done" =>
       /\ ("threat_intel" \in e_attempted) <=> C4_NonEmpty(e_event.actor.ip)
       /\ ("geo" \in e_attempted) <=> C4_NonEmpty(e_event.actor.ip)
       /\ ("asset_context" \in e_attempted) <=>
             (C4_NonEmpty(e_event.resource.id) /\ C4_NonEmpty(e_event.resource.type))
       /\ \A l \in Lookups : (l \in DOMAIN e_result.enrichments) <=> (l \in e_attempted)

\* C4 witness: an event with an empty actor.ip and a resource id but an empty
\* resource type comes back with no sub-bundle at all
C4_Witness ==
    /\ e_pc = "done"
    /\ e_event.actor.ip = ""
    /\ e_event.resource.id = "prod-db"
    /\ e_event.resource.type = ""
    /\ DOMAIN e_result.enrichments = {"enrichment_metadata"}
    /\ e_result.enrichments["enrichment_metadata"].enrichments_added = 0

----------------------------------------------------------------------------
(* Scorer service: feature values *)

\* Feature values are floats that are ratios with denominators 100, 5, 24 and
\* 7; the model holds them as integers in units of 1/One (One = lcm = 4200),
\* so 1.0 is One and 0.8 is 3360.
One == 4200

\* a feature value that is not a number (a str)
NotNumber == -1

\* features.get(name, default)
FGet(f, name, default) == IF name \in DOMAIN f THEN f[name] ELSE default

Bool3(b) == IF b THEN "true" ELSE "false"

Min(a, b) == IF a <= b THEN a ELSE b

----------------------------------------------------------------------------
(* RuleEngine *)

rules ==
    << [name |-> "high_risk_country_admin",    score |-> 40],
       [name |-> "malicious_ip_access",        score |-> 50],
       [name |-> "failed_login_suspicious_ip", score |-> 30],
       [name |-> "critical_resource_access",   score |-> 20],
       [name |-> "weekend_admin_activity",     score |-> 15],
       [name |-> "high_severity_event",        score |-> 25],
       [name |-> "off_hours_activity",         score |-> 10] >>

\* rule['condition'](features): "true", "false", or "error" when the lambda
\* raises.  `x == 1` never raises; `x >= 0.8` raises TypeError on a str.
RuleOutcome(k, f) ==
    CASE k = 1 -> Bool3(FGet(f, "is_high_risk_country", 0) = One
                        /\ FGet(f, "is_admin_action", 0) = One)
      [] k = 2 -> Bool3(FGet(f, "is_malicious", 0) = One)
      [] k = 3 -> Bool3(FGet(f, "is_failed_action", 0) = One
                        /\ FGet(f, "is_suspicious", 0) = One)
      [] k = 4 -> Bool3(FGet(f, "is_critical_resource", 0) = One
                        /\ FGet(f, "is_prod_environment", 0) = One)
      [] k = 5 -> Bool3(FGet(f, "is_weekend", 0) = One
                        /\ FGet(f, "is_admin_action", 0) = One)
      [] k = 6 -> IF FGet(f, "severity_hint", 0) = NotNumber THEN "error"
                  ELSE Bool3(10 * FGet(f, "severity_hint", 0) >= 8 * One)
      [] k = 7 -> Bool3(FGet(f, "is_business_hours", 0) = 0
                        /\ FGet(f, "is_critical_resource", 0) = One)

\* one pass of the loop body: total_score += score and triggered_rules.append
\* when the condition holds; the except clause only logs
RuleApply(acc, k, f) ==
    IF RuleOutcome(k, f) = "true"
    THEN [total_score |-> acc.total_score + rules[k].score,
          triggered_rules |-> Append(acc.triggered_rules, rules[k].name),
          evaluated |-> Append(acc.evaluated, rules[k].name)]
    ELSE [acc EXCEPT !.evaluated = Append(acc.evaluated, rules[k].name)]

\* the mutant of NextRule: an evaluation error leaves the loop
NextRule_BreakOnError(k, outcome) ==
    IF outcome = "error" THEN Len(rules) + 1 ELSE k + 1

\* `for rule in self.rules`: the rule evaluated after rule k, whatever k's outcome
NextRule(k, outcome) == k + 1

RECURSIVE RunRules(_, _, _)
RunRules(acc, k, f) ==
    IF k > Len(rules) THEN acc
    ELSE RunRules(RuleApply(acc, k, f), NextRule(k, RuleOutcome(k, f)), f)

\* the mutant of CapScore: no cap
CapScore_None(total_score) == total_score

\* total_score = min(total_score, 100)
CapScore(total_score) == Min(total_score, 100)

\* RuleEngine.calculate_rule_score; triggered_rules holds the names (score_event
\* keeps only rule['name']), evaluated the rules whose condition was called
calculate_rule_score(f) ==
    LET acc == RunRules([total_score |-> 0, triggered_rules |-> <<>>, evaluated |-> <<>>],
                        1, f)
    IN  [rule_score |-> CapScore(acc.total_score),
         triggered_rules |-> acc.triggered_rules,
         evaluated |-> acc.evaluated,
         total_rules_checked |-> Len(rules)]

RuleFlagNames ==
    {"is_high_risk_country", "is_admin_action", "is_malicious", "is_failed_action",
     "is_suspicious", "is_critical_resource", "is_prod_environment", "is_weekend",
     "is_business_hours"}

\* severity_hint / 5.0 for the hints 0, 3, 4, 5 and 7, and a value that is no number
RuleSeverities == {0, 2520, 3360, 4200, 5880, NotNumber}

\* the feature vectors handed to calculate_rule_score: the empty dict (what
\* extract_features returns after an error), vectors without a severity_hint
\* key, and every combination of the flags with a severity_hint
RuleFeatureVectors ==
    {<<>>}
    \cup { [n \in T |-> One] : T \in SUBSET {"is_malicious", "is_critical_resource"} }
    \cup { [n \in RuleFlagNames \cup {"severity_hint"} |->
              IF n = "severity_hint" THEN sev ELSE IF n \in T THEN One ELSE 0] :
           T \in SUBSET RuleFlagNames, sev \in RuleSeverities }

RulesInit ==
    /\ IngestIdle
    /\ EnrichIdle
    /\ FuseIdle
    /\ ScoreIdle
    /\ PredictIdle
    /\ ConcIdle
    /\ r_features \in RuleFeatureVectors
    /\ r_result = NoRuleResult
    /\ r_pc = "call"

RulesCall ==
    /\ r_pc = "call"
    /\ r_result' = calculate_rule_score(r_features)
    /\ r_pc' = "done"
    /\ UNCHANGED r_features
    /\ UNCHANGED notRules

RulesNext == RulesCall

SpecRules == RulesInit /\ [][RulesNext]_vars

----------------------------------------------------------------------------
(* Score fusion *)

\* model_score is a float in points; the model holds it in 1/ScoreUnit points
ScoreUnit == 1000

ModelScoreStep == 250

\* final_score = min(int((model_score * 0.7) + (rule_score * 0.3)), 100).
\* The sum is (7 * model_score + 3 * ScoreUnit * rule_score) / (10 * ScoreUnit);
\* int() truncates, which is floor for the non-negative sums of the model.
FinalScore_Rounded(model_score, rule_score) ==
    Min((7 * model_score + 3 * ScoreUnit * rule_score + 5 * ScoreUnit) \div (10 * ScoreUnit),
        100)

FinalScore(model_score, rule_score) ==
    Min((7 * model_score + 3 * ScoreUnit * rule_score) \div (10 * ScoreUnit), 100)

\* 0.0, 50.0 (predict's default and fallback), 100.0, and a grid of scores in
\* between on which the weighted sum is never a whole number
ModelScores ==
    {0, 50 * ScoreUnit, 100 * ScoreUnit}
    \cup { m \in 1..(100 * ScoreUnit) : m % ModelScoreStep = ModelScoreStep \div 2 }

RuleScores == 0..100

FuseInit ==
    /\ IngestIdle
    /\ EnrichIdle
    /\ RulesIdle
    /\ ScoreIdle
    /\ PredictIdle
    /\ ConcIdle
    /\ f_model_score \in ModelScores
    /\ f_rule_score \in RuleScores
    /\ f_final_score = 0
    /\ f_pc = "call"

FuseCall ==
    /\ f_pc = "call"
    /\ f_final_score' = FinalScore(f_model_score, f_rule_score)
    /\ f_pc' = "done"
    /\ UNCHANGED <<f_model_score, f_rule_score>>
    /\ UNCHANGED notFuse

FuseNext == FuseCall

SpecFuse == FuseInit /\ [][FuseNext]_vars

----------------------------------------------------------------------------
(* Claims about the rule engine and the fusion *)

C5_TableNames ==
    <<"high_risk_country_admin", "malicious_ip_access", "failed_login_suspicious_ip",
      "critical_resource_access", "weekend_admin_activity", "high_severity_event",
      "off_hours_activity">>

C5_Is1(f, name) == name \in DOMAIN f /\ f[name] = One

\* whether the rule's condition of the specification's table holds for f
C5_Holds(name, f) ==
    CASE name = "high_risk_country_admin" ->
            C5_Is1(f, "is_high_risk_country") /\ C5_Is1(f, "is_admin_action")
      [] name = "malicious_ip_access" -> C5_Is1(f, "is_malicious")
      [] name = "failed_login_suspicious_ip" ->
            C5_Is1(f, "is_failed_action") /\ C5_Is1(f, "is_suspicious")
      [] name = "critical_resource_access" ->
            C5_Is1(f, "is_critical_resource") /\ C5_Is1(f, "is_prod_environment")
      [] name = "weekend_admin_activity" ->
            C5_Is1(f, "is_weekend") /\ C5_Is1(f, "is_admin_action")
      [] name = "high_severity_event" ->
            /\ "severity_hint" \in DOMAIN f
            /\ f["severity_hint"] # NotNumber
            /\ 5 * f["severity_hint"] >= 4 * One
      [] name = "off_hours_activity" ->
            /\ ~("is_business_hours" \in DOMAIN f /\ f["is_business_hours"] # 0)
            /\ C5_Is1(f, "is_critical_resource")

C5_Points(name) ==
    CASE name = "high_risk_country_admin" -> 40
      [] name = "malicious_ip_access" -> 50
      [] name = "failed_login_suspicious_ip" -> 30
      [] name = "critical_resource_access" -> 20
      [] name = "weekend_admin_activity" -> 15
      [] name = "high_severity_event" -> 25
      [] name = "off_hours_activity" -> 10

RECURSIVE C5_SumFrom(_, _, _)
C5_SumFrom(k, names, f) ==
    IF k > Len(names) THEN 0
    ELSE (IF C5_Holds(names[k], f) THEN C5_Points(names[k]) ELSE 0)
         + C5_SumFrom(k + 1, names, f)

\* C5: calculate_rule_score returns min(sum of the points of exactly the
\* rules of the seven-rule table whose condition holds, 100), an integer in
\* 0..100 that is 100 whenever the points sum to 100 or more; all seven rules
\* are evaluated, in table order, and triggered_rules lists the triggered names
\* in table order, each once.
C5_RuleScoreIsCappedSum ==
    r_pc = "done" =>
       LET sum == C5_SumFrom(1, C5_TableNames, r_features)
       IN  /\ r_result.rule_score = (IF sum >= 100 THEN 100 ELSE sum)
           /\ r_result.rule_score \in 0..100
           /\ r_result.evaluated = C5_TableNames
           /\ r_result.triggered_rules =
                 SelectSeq(C5_TableNames, LAMBDA n : C5_Holds(n, r_features))

\* C5 witness: a vector that triggers all seven rules (190 points) scored 100
C5_Witness ==
    /\ r_pc = "done"
    /\ C5_SumFrom(1, C5_TableNames, r_features) = 190
    /\ r_result.rule_score = 100
    /\ Len(r_result.triggered_rules) = 7

C6_OtherNames ==
    <<"high_risk_country_admin", "malicious_ip_access", "failed_login_suspicious_ip",
      "critical_resource_access", "weekend_admin_activity", "off_hours_activity">>

\* the high_severity_event condition raises: severity_hint is no number
C6_ConditionRaises(f) == "severity_hint" \in DOMAIN f /\ f["severity_hint"] = NotNumber

\* C6: when a rule's condition raises, calculate_rule_score still returns; the
\* rule is absent from triggered_rules and adds no points, and every other
\* rule, before and after it in the table, was evaluated and contributes what
\* its own condition gives.
C6_RaisingRuleSkipped ==
    (r_pc = "done" /\ C6_ConditionRaises(r_features)) =>
       LET others == C5_SumFrom(1, C6_OtherNames, r_features)
       IN  /\ \A k \in 1..Len(r_result.triggered_rules) :
                 r_result.triggered_rules[k] # "high_severity_event"
           /\ r_result.rule_score = (IF others >= 100 THEN 100 ELSE others)
           /\ r_result.triggered_rules =
                 SelectSeq(C6_OtherNames, LAMBDA n : C5_Holds(n, r_features))
           /\ \A k \in 1..Len(C6_OtherNames) :
                 \E m \in 1..Len(r_result.evaluated) :
                    r_result.evaluated[m] = C6_OtherNames[k]

\* C6 witness: the severity rule raised between a triggered earlier rule
\* (malicious_ip_access) and a triggered later rule (off_hours_activity)
C6_Witness ==
    /\ r_pc = "done"
    /\ C6_ConditionRaises(r_features)
    /\ r_result.triggered_rules = <<"malicious_ip_access", "off_hours_activity">>
    /\ r_result.rule_score = 60

----------------------------------------------------------------------------
(* FeatureExtractor.extract_features *)

high_risk_countries == {"CN", "RU", "KP", "IR", "XX"}
critical_resources == {"database", "s3", "rds"}

Flag(b) == IF b THEN One ELSE 0

\* a variant of BundleGet: without threat_intel the reputation score reads as 0
BundleGet_RepZero(enrichments, key, field, default) ==
    IF key \in DOMAIN enrichments THEN enrichments[key][field]
    ELSE IF field = "rep_score" THEN 0 ELSE default

\* enrichments.get(key, {}).get(field, default)
BundleGet(enrichments, key, field, default) ==
    IF key \in DOMAIN enrichments THEN enrichments[key][field] ELSE default

\* event.get('action', '').lower(), as the substrings extract_features tests
ActionWords(action) ==
    CASE action = "AdminLoginFailed" -> {"login", "failed", "fail", "admin"}
      [] action = "ListBuckets"      -> {}
      [] action = Absent             -> {}

\* what makes the try body raise: .lower() on None, float() on a str
ExtractRaises(event) ==
    \/ event.action = NoneVal
    \/ event.severity_hint.kind = "str"

\* [raised, features]: the except clause logs and returns {}.
\* Units of 1/One: rep_score/100 is 42 per point, criticality/5 and
\* severity_hint/5 are 840 per step, hour/24 is 175 per hour, weekday/7 is 600
\* per day; asn is float(asn).
extract_features(event, enrichments, now) ==
    IF ExtractRaises(event)
    THEN [raised |-> TRUE, features |-> <<>>]
    ELSE LET ip_rep == BundleGet(enrichments, "threat_intel", "ip_rep", NoneVal)
             words == ActionWords(event.action)
             resource_type == Get(event.resource.type, "")
             severity == IF event.severity_hint.kind = "absent" THEN 1
                         ELSE event.severity_hint.n
         IN  [raised |-> FALSE,
              features |->
                [asn |-> BundleGet(enrichments, "geo", "asn", 0) * One,
                 is_high_risk_country |->
                    Flag(BundleGet(enrichments, "geo", "country_code", "")
                            \in high_risk_countries),
                 rep_score |-> BundleGet(enrichments, "threat_intel", "rep_score", 50) * 42,
                 is_malicious |-> Flag(ip_rep = "malicious"),
                 is_suspicious |-> Flag(ip_rep = "suspicious"),
                 asset_criticality |->
                    BundleGet(enrichments, "asset_context", "criticality", 1) * 840,
                 is_prod_environment |->
                    Flag(BundleGet(enrichments, "asset_context", "environment", NoneVal)
                            = "prod"),
                 hour_of_day |-> now.hour * 175,
                 day_of_week |-> now.weekday * 600,
                 is_weekend |-> Flag(now.weekday >= 5),
                 is_business_hours |-> Flag(9 <= now.hour /\ now.hour <= 17),
                 is_login_action |-> Flag("login" \in words),
                 is_failed_action |-> Flag("failed" \in words \/ "fail" \in words),
                 is_admin_action |-> Flag("admin" \in words \/ "root" \in words),
                 is_critical_resource |-> Flag(resource_type \in critical_resources),
                 severity_hint |-> severity * 840]]

----------------------------------------------------------------------------
(* MLModel.predict *)

\* a variant of feature_weights: a high reputation score lowers the risk
feature_weights_RepLowers ==
    [is_malicious |-> 40, rep_score |-> -30, is_high_risk_country |-> 20,
     asset_criticality |-> 25, is_prod_environment |-> 15, is_admin_action |-> 30,
     is_failed_action |-> 20, is_business_hours |-> -10, severity_hint |-> 20,
     is_critical_resource |-> 30, is_suspicious |-> 25]

\* feature_weights, in hundredths
feature_weights ==
    [is_malicious |-> 40, rep_score |-> 30, is_high_risk_country |-> 20,
     asset_criticality |-> 25, is_prod_environment |-> 15, is_admin_action |-> 30,
     is_failed_action |-> 20, is_business_hours |-> -10, severity_hint |-> 20,
     is_critical_resource |-> 30, is_suspicious |-> 25]

RECURSIVE SumOver(_, _)
SumOver(S, f) ==
    IF S = {} THEN 0
    ELSE LET x == CHOOSE y \in S : TRUE IN f[x] + SumOver(S \ {x}, f)

\* 100000 / (1 + exp(-x)) for x = -2.00, -1.95, ..., 6.00, rounded
SigmoidTable ==
    <<
       11920, 12455, 13011, 13587, 14185, 14805, 15447, 16111, 16798, 17509,
       18243, 19000, 19782, 20587, 21417, 22270, 23148, 24049, 24974, 25923,
       26894, 27888, 28905, 29943, 31003, 32082, 33181, 34299, 35434, 36586,
       37754, 38936, 40131, 41338, 42556, 43782, 45017, 46257, 47502, 48750,
       50000, 51250, 52498, 53743, 54983, 56218, 57444, 58662, 59869, 61064,
       62246, 63414, 64566, 65701, 66819, 67918, 68997, 70057, 71095, 72112,
       73106, 74077, 75026, 75951, 76852, 77730, 78583, 79413, 80218, 81000,
       81757, 82491, 83202, 83889, 84553, 85195, 85815, 86413, 86989, 87545,
       88080, 88595, 89090, 89567, 90025, 90465, 90888, 91293, 91683, 92056,
       92414, 92757, 93086, 93401, 93703, 93991, 94268, 94532, 94785, 95026,
       95257, 95478, 95689, 95891, 96083, 96267, 96443, 96610, 96770, 96923,
       97069, 97208, 97340, 97467, 97587, 97702, 97812, 97916, 98016, 98111,
       98201, 98288, 98370, 98448, 98523, 98594, 98661, 98726, 98787, 98846,
       98901, 98954, 99005, 99053, 99099, 99142, 99184, 99223, 99261, 99297,
       99331, 99363, 99394, 99423, 99451, 99478, 99503, 99527, 99550, 99572,
       99593, 99613, 99632, 99649, 99667, 99683, 99698, 99713, 99727, 99740,
       99753 >>

\* probability * 100 in 1/ScoreUnit points, for a raw score x in 1/10000:
\* linear interpolation in SigmoidTable.  The feature vectors of extract_features
\* under the inputs below keep x within the table; beyond it the ends stand in.
Sigmoid(x) ==
    LET lo == -20000
        hi == lo + 500 * (Len(SigmoidTable) - 1)
        xc == IF x < lo THEN lo ELSE IF x > hi THEN hi ELSE x
        k == (xc - lo) \div 500 + 1
        frac == (xc - lo) % 500
    IN  IF k >= Len(SigmoidTable) THEN SigmoidTable[Len(SigmoidTable)]
        ELSE SigmoidTable[k] + ((SigmoidTable[k + 1] - SigmoidTable[k]) * frac) \div 500

\* confidence is a float in [0,1]; the model holds it in units of 1/ConfUnit
ConfUnit == 16000

\* the except clause of predict
PredictFallback ==
    [model_score |-> 50 * ScoreUnit, confidence |-> ConfUnit \div 10, features_used |-> 0,
     raised |-> TRUE]

\* MLModel.predict.  features[feature] * weight raises TypeError on a str.
\* sum is in units of 1/(100 * One), sum \div 42 the same in 1/10000 (every
\* term is a multiple of 42); raw_score is raw_score / max(weights_used * 0.1, 1.0).
predict(features) ==
    LET used == DOMAIN feature_weights \cap DOMAIN features
        weights_used == Cardinality(used)
        sum == SumOver(used, [n \in used |-> features[n] * feature_weights[n]])
        raw_score == IF weights_used >= 10
                     THEN ((sum \div 42) * 10) \div weights_used
                     ELSE sum \div 42
        nonzero == Cardinality({ n \in DOMAIN features : features[n] # 0 })
        total == Cardinality(DOMAIN features)
        completeness == IF total = 0 THEN 0 ELSE (7 * (ConfUnit \div 10) * nonzero) \div total
    IN  IF \E n \in used : features[n] = NotNumber
        THEN PredictFallback
        ELSE [model_score |-> IF weights_used > 0 THEN Sigmoid(raw_score)
                              ELSE 50 * ScoreUnit,
              confidence |-> Min(3 * (ConfUnit \div 10) + completeness, ConfUnit),
              features_used |-> total,
              raised |-> FALSE]

----------------------------------------------------------------------------
(* RiskScorer.score_event *)

ScoreActions == {"AdminLoginFailed", "ListBuckets", NoneVal}
ScoreResources == {[BaseResource EXCEPT !.type = t] : t \in {"database", "vm"}}
ScoreSeverities == {Sev(5), Sev(1), Sev(9), SevAbsent, SevStr}
ScoreEvents ==
    { [BaseEvent EXCEPT !.action = a, !.resource = r, !.severity_hint = sev] :
        a \in ScoreActions, r \in ScoreResources, sev \in ScoreSeverities }

\* the sub-bundles the scorer is handed: the enricher's, and those of the
\* providers of scenario A
ScenarioAThreatIntel ==
    [lookup_ip_reputation("10.0.0.5", FALSE) EXCEPT !.ip_rep = "malicious", !.rep_score = 90]
ScenarioAAsset ==
    [get_asset_context("prod-db", "database", FALSE) EXCEPT !.criticality = 5]
ScoreThreatIntel ==
    {ThreatIntelFallback, lookup_ip_reputation("10.0.0.5", FALSE),
     lookup_ip_reputation("198.51.100.7", FALSE), ScenarioAThreatIntel}
ScoreGeo == {GeoFallback, lookup_ip_location("10.0.0.5", FALSE, 0)}
ScoreAssets ==
    {AssetFallback("prod-db", "database"), get_asset_context("prod-db", "database", FALSE),
     ScenarioAAsset}
ScoreEnrichments ==
    { [k \in K |-> [threat_intel |-> t, geo |-> g, asset_context |-> a][k]] :
        t \in ScoreThreatIntel, g \in ScoreGeo, a \in ScoreAssets, K \in SUBSET Lookups }

ScoreHours == {0, 3, 9, 17}
ScoreWeekdays == {0, 2, 5}

ScoreInit ==
    /\ IngestIdle
    /\ EnrichIdle
    /\ RulesIdle
    /\ FuseIdle
    /\ PredictIdle
    /\ ConcIdle
    /\ s_event \in ScoreEvents
    /\ s_enrichments \in ScoreEnrichments
    /\ s_now \in [hour : ScoreHours, weekday : ScoreWeekdays]
    /\ s_features = <<>>
    /\ s_rule_result = NoRuleResult
    /\ s_ml_result = NoMlResult
    /\ s_logged = {}
    /\ s_result = NoScoringResult
    /\ s_pc = "extract"

\* features = self.feature_extractor.extract_features(event, enrichments)
ScoreExtract ==
    /\ s_pc = "extract"
    /\ LET r == extract_features(s_event, s_enrichments, s_now)
       IN  /\ s_features' = r.features
           /\ s_logged' = IF r.raised THEN s_logged \cup {"extract"} ELSE s_logged
    /\ s_pc' = "rules"
    /\ UNCHANGED <<s_event, s_enrichments, s_now, s_rule_result, s_ml_result, s_result>>
    /\ UNCHANGED notScore

\* rule_result = self.rule_engine.calculate_rule_score(features)
ScoreRules ==
    /\ s_pc = "rules"
    /\ s_rule_result' = calculate_rule_score(s_features)
    /\ s_pc' = "predict"
    /\ UNCHANGED <<s_event, s_enrichments, s_now, s_features, s_ml_result, s_logged,
                   s_result>>
    /\ UNCHANGED notScore

\* ml_result = self.ml_model.predict(features)
ScorePredict ==
    /\ s_pc = "predict"
    /\ s_ml_result' = predict(s_features)
    /\ s_logged' = IF s_ml_result'.raised THEN s_logged \cup {"predict"} ELSE s_logged
    /\ s_pc' = "fuse"
    /\ UNCHANGED <<s_event, s_enrichments, s_now, s_features, s_rule_result, s_result>>
    /\ UNCHANGED notScore

\* the fusion and the return of scoring_result
ScoreFuse ==
    /\ s_pc = "fuse"
    /\ s_result' =
          [model_score |-> s_ml_result.model_score,
           rule_score |-> s_rule_result.rule_score,
           final_score |-> FinalScore(s_ml_result.model_score, s_rule_result.rule_score),
           confidence |-> s_ml_result.confidence,
           triggered_rules |-> s_rule_result.triggered_rules,
           features_extracted |-> Cardinality(DOMAIN s_features)]
    /\ s_pc' = "done"
    /\ UNCHANGED <<s_event, s_enrichments, s_now, s_features, s_rule_result, s_ml_result,
                   s_logged>>
    /\ UNCHANGED notScore

ScoreNext ==
    \/ ScoreExtract
    \/ ScoreRules
    \/ ScorePredict
    \/ ScoreFuse

SpecScore == ScoreInit /\ [][ScoreNext]_vars

----------------------------------------------------------------------------
(* Claims about the degradation of score_event *)

\* extract_features or predict raised internally during the call
C8_StageRaised == s_logged # {}

\* C8: when feature extraction or model prediction raises internally,
\* score_event still returns, and the returned result has model_score 50,
\* confidence 0.1 and an empty feature set.
C8_DegradedDefaults ==
    (s_pc = "done" /\ C8_StageRaised)
        => /\ s_result.model_score = 50 * ScoreUnit
           /\ s_result.confidence = ConfUnit \div 10
           /\ s_result.features_extracted = 0

----------------------------------------------------------------------------
(* MLModel.predict on two feature vectors that differ in rep_score only *)

\* the names of the feature vector extract_features builds
FeatureNames ==
    {"asn", "is_high_risk_country", "rep_score", "is_malicious", "is_suspicious",
     "asset_criticality", "is_prod_environment", "hour_of_day", "day_of_week",
     "is_weekend", "is_business_hours", "is_login_action", "is_failed_action",
     "is_admin_action", "is_critical_resource", "severity_hint"}

\* reputation scores 0..100 of the providers, and values outside that range
RepScores == {-50, 0, 10, 15, 50, 60, 90, 100, 150}

\* the vectors extract_features builds, and vectors holding only some features
\* (fewer than ten weighted features: the raw score is not scaled down)
PredictVectors ==
    LET full == { extract_features(ev, enr, now).features :
                    ev \in { e \in ScoreEvents : ~ExtractRaises(e) },
                    enr \in { e \in ScoreEnrichments :
                                DOMAIN e \in {{}, {"threat_intel", "asset_context"}} },
                    now \in {[hour |-> 3, weekday |-> 5], [hour |-> 9, weekday |-> 2]} }
        names == {{"rep_score"}, {"rep_score", "is_business_hours", "severity_hint"},
                  DOMAIN feature_weights, FeatureNames}
    IN  { [n \in N |-> v[n]] : v \in full, N \in names }

PredictInit ==
    /\ IngestIdle
    /\ EnrichIdle
    /\ RulesIdle
    /\ FuseIdle
    /\ ScoreIdle
    /\ ConcIdle
    /\ m_features \in PredictVectors
    /\ m_rep_scores \in RepScores \X RepScores
    /\ m_results = <<NoMlResult, NoMlResult>>
    /\ m_pc = "call"

\* ml_model.predict(features) for each of the two vectors
PredictCall ==
    /\ m_pc = "call"
    /\ m_results' = [k \in 1..2 |->
                        predict([m_features EXCEPT !.rep_score = m_rep_scores[k] * 42])]
    /\ m_pc' = "done"
    /\ UNCHANGED <<m_features, m_rep_scores>>
    /\ UNCHANGED notPredict

PredictNext == PredictCall

SpecPredict == PredictInit /\ [][PredictNext]_vars

----------------------------------------------------------------------------
(* The pipeline: one event from the ingest handler through the enricher to   *)
(* the scorer.  The services are the ones above; what hands the event from  *)
(* one to the next is the orchestration the specification describes.        *)

\* the hours and weekdays at which the scorer reads the clock
ScoreClock == [hour : ScoreHours, weekday : ScoreWeekdays]

\* an invocation of the ingest handler with a batch of one raw event
PipelineInit ==
    /\ IngestInit
    /\ Len(batch) = 1

\* the record the handler published on the stream reaches enrich_event
HandoffEnrich ==
    /\ pc = "done"
    /\ e_pc = "idle"
    /\ Len(stream) >= 1
    /\ e_event' = stream[1]
    /\ e_raises' \in SUBSET Lookups
    /\ e_hash' \in 0..(Len(countries) - 1)
    /\ e_pc' = "start"
    /\ UNCHANGED <<e_attempted, e_enrichments, e_result>>
    /\ UNCHANGED notEnrich

\* the enriched event reaches score_event: base_event is the event without the
\* enricher's keys, enrichments are its enrichments
HandoffScore ==
    /\ e_pc = "done"
    /\ s_pc = "idle"
    /\ s_event' = [k \in DOMAIN e_result \ {"status", "enrichments"} |-> e_result[k]]
    /\ s_enrichments' = e_result.enrichments
    /\ s_now' \in ScoreClock
    /\ s_pc' = "extract"
    /\ UNCHANGED <<s_features, s_rule_result, s_ml_result, s_logged, s_result>>
    /\ UNCHANGED notScore

\* enrich_event and then score_event on its result, for the events of EnrichEvents
EnrichScoreNext ==
    \/ EnrichNext
    \/ HandoffScore
    \/ ScoreNext

SpecEnrichScore == EnrichInit /\ [][EnrichScoreNext]_vars

PipelineNext ==
    \/ IngestNext
    \/ HandoffEnrich
    \/ EnrichNext
    \/ HandoffScore
    \/ ScoreNext

SpecPipeline == PipelineInit /\ [][PipelineNext]_vars

----------------------------------------------------------------------------
(* Concurrent enrich_event coroutines.  The /enrich endpoint is an async     *)
(* handler: each request runs enrich_event as a coroutine on the one event  *)
(* loop of the process.  A coroutine runs until it awaits; inside a provider *)
(* call it is suspended in the provider's simulated API call (await         *)
(* asyncio.sleep) until that call responds.  enrich_event awaits each       *)
(* provider call directly: no wait_for, no timeout.                         *)

MaxRequests == 2
Requests == 1..MaxRequests

ConcEvents ==
    { BaseEvent,
      [BaseEvent EXCEPT !.actor = [BaseActor EXCEPT !.ip = Absent]] }

\* which API calls never respond, for one request
ConcHangs == {{}, {"geo"}, {"asset_context"}}

\* the clock time score_event reads when it is called for a request
ConcClock == {[hour |-> 9, weekday |-> 5]}

\* score_event has not been called for the request
NotScored == [scored |-> FALSE, now |-> [hour |-> 0, weekday |-> 0],
              result |-> NoScoringResult]

ConcInit ==
    /\ IngestIdle
    /\ EnrichIdle
    /\ RulesIdle
    /\ FuseIdle
    /\ ScoreIdle
    /\ PredictIdle
    /\ c_event \in [Requests -> ConcEvents]
    /\ c_raises \in [Requests -> {{}, {"threat_intel"}}]
    /\ c_hangs \in [Requests -> ConcHangs]
    /\ c_hash = Len(countries) - 1
    /\ c_pc = [r \in Requests |-> "start"]
    /\ c_awaiting = [r \in Requests |-> "none"]
    /\ c_issued = [r \in Requests |-> {}]
    /\ c_enrichments = [r \in Requests |-> <<>>]
    /\ c_result = [r \in Requests |-> [status |-> Absent, enrichments |-> <<>>]]
    /\ c_scored = [r \in Requests |-> NotScored]

\* a variant of CanResume: the API call blocks the event loop (time.sleep), so
\* no coroutine runs while another is inside a provider call
CanResume_Blocking(r) ==
    \A other \in Requests \ {r} : c_awaiting[other] = "none"

\* `await asyncio.sleep(...)` suspends only the calling coroutine: what another
\* coroutine awaits does not keep this one from running
CanResume(r) == TRUE

\* a variant of ProviderAnswer: the services keep a cache per ip address and
\* per resource, and answer from what another request was answered
ProviderAnswer_Cached(lookup, event, raises, h) ==
    LET hits == { o \in Requests :
                    /\ lookup \in DOMAIN c_enrichments[o]
                    /\ c_event[o].actor.ip = event.actor.ip
                    /\ c_event[o].resource = event.resource }
    IN  IF hits # {}
        THEN c_enrichments[CHOOSE o \in hits : TRUE][lookup]
        ELSE CASE lookup = "threat_intel" ->
                    lookup_ip_reputation(event.actor.ip, "threat_intel" \in raises)
              [] lookup = "geo" ->
                    lookup_ip_location(event.actor.ip, "geo" \in raises, h)
              [] lookup = "asset_context" ->
                    get_asset_context(event.resource.id, event.resource.type,
                                      "asset_context" \in raises)

\* what the provider call returns once its API call has responded
ProviderAnswer(lookup, event, raises, h) ==
    CASE lookup = "threat_intel" ->
            lookup_ip_reputation(event.actor.ip, "threat_intel" \in raises)
      [] lookup = "geo" ->
            lookup_ip_location(event.actor.ip, "geo" \in raises, h)
      [] lookup = "asset_context" ->
            get_asset_context(event.resource.id, event.resource.type,
                              "asset_context" \in raises)

\* the statement enrich_event goes on with after the provider call returned
AfterLookup(lookup, event) ==
    CASE lookup = "threat_intel"  -> "geo"
      [] lookup = "geo"           -> AfterIpLookups(event)
      [] lookup = "asset_context" -> "metadata"

\* enriched_event = event.copy(); enrichments = {}; actor_ip = ...
ConcStart(r) ==
    /\ c_pc[r] = "start"
    /\ CanResume(r)
    /\ c_pc' = [c_pc EXCEPT ![r] = IF WantsIpLookups(c_event[r]) THEN "threat_intel"
                                   ELSE AfterIpLookups(c_event[r])]
    /\ UNCHANGED <<c_event, c_raises, c_hangs, c_hash, c_awaiting, c_issued,
                   c_enrichments, c_result, c_scored>>
    /\ UNCHANGED notConc

\* `await self.<service>.<lookup>(...)`: the coroutine enters the provider call
\* and is suspended in its API call
ConcCall(r) ==
    /\ c_pc[r] \in Lookups
    /\ c_awaiting[r] = "none"
    /\ CanResume(r)
    /\ c_awaiting' = [c_awaiting EXCEPT ![r] = c_pc[r]]
    /\ c_issued' = [c_issued EXCEPT ![r] = @ \cup {c_pc[r]}]
    /\ UNCHANGED <<c_event, c_raises, c_hangs, c_hash, c_pc, c_enrichments, c_result,
                   c_scored>>
    /\ UNCHANGED notConc

\* the API call responded: the provider call returns its result or, having
\* raised, its fallback, and enrich_event stores it
ConcReturn(r) ==
    /\ c_awaiting[r] # "none"
    /\ c_awaiting[r] \notin c_hangs[r]
    /\ CanResume(r)
    /\ c_enrichments' = [c_enrichments EXCEPT ![r] =
          @ @@ (c_awaiting[r] :>
                  ProviderAnswer(c_awaiting[r], c_event[r], c_raises[r], c_hash))]
    /\ c_pc' = [c_pc EXCEPT ![r] = AfterLookup(c_awaiting[r], c_event[r])]
    /\ c_awaiting' = [c_awaiting EXCEPT ![r] = "none"]
    /\ UNCHANGED <<c_event, c_raises, c_hangs, c_hash, c_issued, c_result, c_scored>>
    /\ UNCHANGED notConc

\* enrichment_metadata, enriched_event['enrichments'], status 'enriched', return
ConcFinish(r) ==
    /\ c_pc[r] = "metadata"
    /\ CanResume(r)
    /\ LET enr == c_enrichments[r] @@
                  ("enrichment_metadata" :>
                      [enriched_at |-> EnrichedAt,
                       enricher_version |-> "1.0.0",
                       enrichments_added |-> Cardinality(DOMAIN c_enrichments[r])])
       IN  /\ c_enrichments' = [c_enrichments EXCEPT ![r] = enr]
           /\ c_result' = [c_result EXCEPT ![r] = enriched_event(c_event[r], enr)]
    /\ c_pc' = [c_pc EXCEPT ![r] = "done"]
    /\ UNCHANGED <<c_event, c_raises, c_hangs, c_hash, c_awaiting, c_issued, c_scored>>
    /\ UNCHANGED notConc

ConcStep(r) == ConcStart(r) \/ ConcCall(r) \/ ConcReturn(r) \/ ConcFinish(r)

\* RiskScorer.score_event as one call: it has no await, so it runs from its
\* first statement to its return without another coroutine in between
score_event(event, enrichments, now) ==
    LET features == extract_features(event, enrichments, now).features
        rule_result == calculate_rule_score(features)
        ml_result == predict(features)
    IN  [model_score |-> ml_result.model_score,
         rule_score |-> rule_result.rule_score,
         final_score |-> FinalScore(ml_result.model_score, rule_result.rule_score),
         confidence |-> ml_result.confidence,
         triggered_rules |-> rule_result.triggered_rules,
         features_extracted |-> Cardinality(DOMAIN features)]

\* the event enrich_event returned for request r is scored: base_event is the
\* event without the enricher's keys, enrichments are its enrichments
ConcScore(r) ==
    /\ c_pc[r] = "done"
    /\ ~c_scored[r].scored
    /\ \E now \in ConcClock :
          c_scored' = [c_scored EXCEPT ![r] =
              [scored |-> TRUE, now |-> now,
               result |-> score_event(
                   [k \in DOMAIN c_result[r] \ {"status", "enrichments"} |-> c_result[r][k]],
                   c_result[r].enrichments, now)]]
    /\ UNCHANGED <<c_event, c_raises, c_hangs, c_hash, c_pc, c_awaiting, c_issued,
                   c_enrichments, c_result>>
    /\ UNCHANGED notConc

ConcNext == \E r \in Requests : ConcStep(r) \/ ConcScore(r)

\* the event loop runs every coroutine that is ready to run, and a provider
\* call whose API call responds resumes its caller
SpecEnrichConc ==
    ConcInit /\ [][ConcNext]_vars /\ \A r \in Requests : WF_vars(ConcStep(r))

----------------------------------------------------------------------------
(* Claims about provider calls that are slow or never respond *)

\* the lookups enrich_event makes for an event
C17_Wanted(event) ==
    (IF WantsIpLookups(event) THEN {"threat_intel", "geo"} ELSE {})
        \cup (IF WantsAssetLookup(event) THEN {"asset_context"} ELSE {})

\* the fixed fallback of a lookup
C17_Fallback(lookup, event) ==
    CASE lookup = "threat_intel"  -> ThreatIntelFallback
      [] lookup = "geo"           -> GeoFallback
      [] lookup = "asset_context" -> AssetFallback(event.resource.id, event.resource.type)

\* C17: every provider call of enrich_event is bounded by a per-call timeout:
\* when a provider never responds the call counts as a provider error, the
\* sub-bundle gets its fixed fallback, and enrich_event eventually returns.
C17_HungProviderTimesOut ==
    \A r \in Requests :
        <>(/\ c_pc[r] = "done"
           /\ \A lookup \in C17_Wanted(c_event[r]) \cap c_hangs[r] :
                 /\ lookup \in DOMAIN c_result[r].enrichments
                 /\ c_result[r].enrichments[lookup] = C17_Fallback(lookup, c_event[r]))

\* the coroutine of request r has not returned and is not inside an API call
\* of its own that never responds
C18_CanProceed(r) ==
    /\ c_pc[r] # "done"
    /\ c_awaiting[r] \notin c_hangs[r]

\* C18: enrich_event returns the enriched event only after every lookup it
\* made for that event has completed with a result or a fallback, never while
\* one of its own lookups is pending; and a lookup of one event that is slow,
\* or never answers, does not keep another event from going on with, and
\* completing, its enrichment.
C18_FanIn ==
    \A r \in Requests :
        /\ c_pc[r] = "done" =>
                /\ c_result[r].status = "enriched"
                /\ c_awaiting[r] = "none"
                /\ c_issued[r] = C17_Wanted(c_event[r])
                /\ c_issued[r] \subseteq DOMAIN c_result[r].enrichments
        /\ c_result[r].status = "enriched" => c_pc[r] = "done"
        /\ C18_CanProceed(r) => ENABLED ConcStep(r)

\* the second event has completed with all three lookups while the geo
\* lookup of the first is still pending
C18_Witness ==
    /\ c_awaiting[1] = "geo"
    /\ "geo" \in c_hangs[1]
    /\ c_pc[2] = "done"
    /\ c_result[2].status = "enriched"
    /\ c_issued[2] = Lookups

----------------------------------------------------------------------------
(* Claims about the pipeline *)

ClockTimes == { ClockTable[n] : n \in 1..Len(ClockTable) }

C13_NothingToLookUp ==
    /\ ~Truthy(e_event.actor.ip)
    /\ ~(Truthy(e_event.resource.id) /\ Truthy(e_event.resource.type))

\* C13: for an event with no actor.ip and without both resource.id and
\* resource.type, enrich_event returns enrichments without threat_intel, geo
\* and asset_context, and extract_features on that event returns the full
\* feature vector with the neutral defaults: rep_score 0.5, asset_criticality
\* 0.2, asn 0 and the four enrichment flags 0.
C13_FallbackCompleteness ==
    /\ (e_pc = "done" /\ C13_NothingToLookUp)
          => DOMAIN e_result.enrichments \cap Lookups = {}
    /\ (s_pc \in {"rules", "predict", "fuse", "done"} /\ C13_NothingToLookUp)
          => /\ "extract" \notin s_logged
             /\ DOMAIN s_features = FeatureNames
             /\ 2 * s_features.rep_score = One
             /\ 5 * s_features.asset_criticality = One
             /\ \A name \in {"asn", "is_high_risk_country", "is_malicious",
                             "is_suspicious", "is_prod_environment"} :
                    s_features[name] = 0

C13_Witness ==
    /\ s_pc = "done"
    /\ e_event.actor.ip = Absent
    /\ e_event.resource.id = Absent
    /\ e_event.resource.type = "database"
    /\ DOMAIN e_result.enrichments = {"enrichment_metadata"}
    /\ s_result.features_extracted = 16

\* C14: of two feature vectors that are equal on every feature except
\* rep_score, predict gives the one with the larger rep_score a model_score
\* greater than or equal to the other's.
C14_MonotoneInReputation ==
    (m_pc = "done" /\ m_rep_scores[1] <= m_rep_scores[2])
        => m_results[1].model_score <= m_results[2].model_score

\* a full vector of extract_features whose model_score rises with rep_score
C14_Witness ==
    /\ m_pc = "done"
    /\ DOMAIN m_features = FeatureNames
    /\ m_rep_scores = <<10, 90>>
    /\ m_results[1].model_score < m_results[2].model_score
    /\ ~m_results[1].raised

\* the event of scenario A reached the scorer with the enrichments of scenario
\* A: threat intel 'malicious' at score 90, asset context prod / criticality 5
C15_ScenarioA ==
    /\ s_event.source = "cloudtrail"
    /\ s_event.action = "AdminLoginFailed"
    /\ s_event.resource.type = "database"
    /\ s_event.severity_hint = Sev(5)
    /\ {"threat_intel", "asset_context"} \subseteq DOMAIN s_enrichments
    /\ s_enrichments["threat_intel"].ip_rep = "malicious"
    /\ s_enrichments["threat_intel"].rep_score = 90
    /\ s_enrichments["asset_context"].environment = "prod"
    /\ s_enrichments["asset_context"].criticality = 5

\* the points of the rules named in a sequence of rule names
C15_PointsOf(names) ==
    SumOver({ k \in 1..Len(rules) : \E j \in 1..Len(names) : names[j] = rules[k].name },
            [k \in 1..Len(rules) |-> rules[k].score])

\* C15: scenario A, at every clock time: triggered_rules contains
\* malicious_ip_access, critical_resource_access and high_severity_event,
\* rule_score is the capped sum of the triggered rules, and final_score >= 90.
C15_ScenarioAScore ==
    (s_pc = "done" /\ C15_ScenarioA)
        => /\ \A name \in {"malicious_ip_access", "critical_resource_access",
                           "high_severity_event"} :
                \E j \in 1..Len(s_result.triggered_rules) :
                    s_result.triggered_rules[j] = name
           /\ s_result.rule_score = Min(C15_PointsOf(s_result.triggered_rules), 100)
           /\ s_result.final_score >= 90

\* the enrichments of scenario A: its threat intel and asset context, with no
\* geo bundle or with any the geo provider answers for the actor's address
C16_ScenarioAEnrichments ==
    LET base == [threat_intel |-> ScenarioAThreatIntel, asset_context |-> ScenarioAAsset]
    IN  {base} \cup
        { ("geo" :> lookup_ip_location(BaseEvent.actor.ip, FALSE, h)) @@ base :
            h \in 0..(Len(countries) - 1) }

\* the confidence score_event returns for the scored event with enrichments enr
\* at the clock time of this run
C16_ConfidenceWith(enr) ==
    predict(extract_features(s_event, enr, s_now).features).confidence

\* the scenario-A event is being enriched while all three providers fail
C16_ScenarioB == e_event = BaseEvent /\ e_raises = Lookups

\* C16: scenario B: for the scenario-A event with all three providers failing,
\* the enrichments hold the three fallback bundles, score_event still returns
\* a result, and its confidence is strictly less than the confidence of
\* scenario A scored at the same clock time.
C16_ScenarioBLessConfident ==
    /\ (e_pc = "done" /\ C16_ScenarioB)
          => /\ e_result.status = "enriched"
             /\ Lookups \subseteq DOMAIN e_result.enrichments
             /\ e_result.enrichments["threat_intel"] = ThreatIntelFallback
             /\ e_result.enrichments["geo"] = GeoFallback
             /\ e_result.enrichments["asset_context"] = AssetFallback("prod-db", "database")
    /\ (s_pc = "done" /\ C16_ScenarioB)
          => /\ s_result.features_extracted = Cardinality(FeatureNames)
             /\ \A enr \in C16_ScenarioAEnrichments :
                    s_result.confidence < C16_ConfidenceWith(enr)

C16_Witness ==
    /\ s_pc = "done"
    /\ C16_ScenarioB
    /\ s_now = [hour |-> 3, weekday |-> 2]
    /\ s_result.confidence = (7375 * ConfUnit) \div 10000
    /\ C16_ConfidenceWith([threat_intel |-> ScenarioAThreatIntel,
                           asset_context |-> ScenarioAAsset])
          = (78125 * ConfUnit) \div 100000

----------------------------------------------------------------------------
(* Claims about the ranges of the features of extract_features *)

C21_RatioFeatures ==
    {"rep_score", "asset_criticality", "hour_of_day", "day_of_week", "severity_hint"}

C21_IndicatorFeatures ==
    {"is_high_risk_country", "is_malicious", "is_suspicious", "is_prod_environment",
     "is_weekend", "is_business_hours", "is_login_action", "is_failed_action",
     "is_admin_action", "is_critical_resource"}

\* C21: for every event and enrichment bundle, out-of-range inputs such as
\* severity_hint > 5 included, every ratio feature extract_features produces
\* (rep_score, asset_criticality, hour_of_day, day_of_week, severity_hint) lies
\* in [0,1] and every indicator feature (is_*) is exactly 0.0 or 1.0.
C21_FeaturesNormalized ==
    (s_pc # "extract" /\ DOMAIN s_features # {})
        => /\ \A n \in C21_RatioFeatures :
                0 <= s_features[n] /\ s_features[n] <= One
           /\ \A n \in C21_IndicatorFeatures : s_features[n] \in {0, One}

----------------------------------------------------------------------------
(* Claims about the independence of events *)

\* the provider result of one lookup of an event, taken on its own
C22_ProviderResult(lookup, event, raises, h) ==
    CASE lookup = "threat_intel" ->
            lookup_ip_reputation(event.actor.ip, "threat_intel" \in raises)
      [] lookup = "geo" ->
            lookup_ip_location(event.actor.ip, "geo" \in raises, h)
      [] lookup = "asset_context" ->
            get_asset_context(event.resource.id, event.resource.type,
                              "asset_context" \in raises)

\* the enrichments of an event processed alone
C22_EnrichmentsAlone(event, raises, h) ==
    [lookup \in C17_Wanted(event) |-> C22_ProviderResult(lookup, event, raises, h)]
        @@ ("enrichment_metadata" :>
                [enriched_at |-> EnrichedAt,
                 enricher_version |-> "1.0.0",
                 enrichments_added |-> Cardinality(C17_Wanted(event))])

\* C22: the enrichments and the ScoringResult produced for an event depend
\* only on that event, its provider results and the clock: whatever other
\* events were processed before it or interleaved with it, the event
\* enrich_event returns and the result score_event returns are those of the
\* event processed alone.
C22_EventsIndependent ==
    \A r \in Requests :
        LET alone == C22_EnrichmentsAlone(c_event[r], c_raises[r], c_hash)
        IN  /\ c_pc[r] = "done" => c_result[r] = enriched_event(c_event[r], alone)
            /\ c_scored[r].scored =>
                    c_scored[r].result = score_event(c_event[r], alone, c_scored[r].now)

\* two requests for the same event, of which only the first had its threat
\* intelligence call fail, were both enriched and scored, with different results
C22_Witness ==
    /\ c_event[1] = c_event[2]
    /\ WantsIpLookups(c_event[1])
    /\ c_raises[1] # c_raises[2]
    /\ c_scored[1].scored
    /\ c_scored[2].scored
    /\ c_result[1] # c_result[2]
    /\ c_scored[1].now = c_scored[2].now
    /\ c_scored[1].result # c_scored[2].result

----------------------------------------------------------------------------
(* Claims about what the handler reports for an event offered to the stream *)

\* the events offered to send_to_kinesis that were put on the stream
C23_Published == { k \in 1..Len(offered) : offered[k].published }

C23_DevSkips == handler = "dev" /\ ~Truthy(stream_name)

C23_HasSendError(k) ==
    \E e \in 1..Len(errors) :
        /\ errors[e].index = offered[k].index
        /\ errors[e].error = "Failed to send to stream"
        /\ errors[e].event_id = offered[k].event.event_id

----------------------------------------------------------------------------
(* Claims about the response to a POST *)

\* the events send_to_kinesis returned True for, in the order they were offered
C24_Accepted == SelectSeq(offered, LAMBDA o : o.ok)

\* C24: for every POST whose body is well-formed JSON holding one event or a
\* list of events the handler answers 200 or 207: each input element is
\* counted exactly once, in the accepted events or in the errors, so processed
\* + errors is the number of submitted events, the events list preserves the
\* input order, and the status code is 200 exactly if the error list is empty
\* and 207 otherwise.
C24_EveryElementCounted ==
    pc \in {"done", "raised"} =>
        /\ statusCode \in {200, 207}
        /\ statusCode = 200 <=> errors = <<>>
        /\ Len(processed_events) + Len(errors) = Len(batch0)
        /\ { C24_Accepted[k].index : k \in 1..Len(C24_Accepted) } \cup IndexesOf(errors)
              = { j - 1 : j \in 1..Len(batch0) }
        /\ Len(processed_events) = Len(C24_Accepted)
        /\ \A k \in 1..Len(processed_events) :
              /\ processed_events[k].event_id = C24_Accepted[k].event.event_id
              /\ processed_events[k].status = "accepted"
              /\ \A l \in 1..(k - 1) : C24_Accepted[l].index < C24_Accepted[k].index


====
